---- MODULE Spec2Model ----
(***************************************************************************)
(* A model of cells/text_analyzer.py (class TextAnalyzer).                 *)
(*                                                                         *)
(* A Python str is modelled as a sequence of Unicode code points, so that  *)
(* substring search, str.replace, the regular expressions and sorted()     *)
(* (code-point lexicographic order) are computed as Python computes them.  *)
(* A Python dict is a function whose DOMAIN is its set of keys; a list is  *)
(* a sequence.  A raised exception is the record [exc |-> <class name>].   *)
(***************************************************************************)
EXTENDS Integers, Sequences, FiniteSets, TLC

VARIABLES
    LOADED_DICTIONARIES, \* TextAnalyzer.LOADED_DICTIONARIES: file name -> config.data
    store_file,          \* data/plugins/waifu5/config/unrecognized_words.yaml
    pc,                  \* per request: "idle", "await", "done", "raised"
    kind,                \* per request: "term_freq" or "sentiment"
    stage,               \* per request: index of the dictionary being loaded
    text,                \* per request: the local variable text
    dicts,               \* per request: the dictionaries obtained so far
    response,            \* per request: what _call_texsmart_api returned
    result,              \* per request: the returned value (or the exception)
    reads,               \* history: load_config calls started, per file name
    failed,              \* history: load_config calls that raised, per file name
    seen_done,           \* history: the requests already over when this one was called
    store0,              \* history: the store file before the first request
    input,               \* the argument of the function under test
    output,              \* the values it returned, one per application
    fn                   \* which function the single-function specifications apply

vars == <<LOADED_DICTIONARIES, store_file, pc, kind, stage, text, dicts, response,
          result, reads, failed, seen_done, store0, input, output, fn>>

procvars == <<LOADED_DICTIONARIES, store_file, pc, kind, stage, text, dicts, response,
              result, reads, failed, seen_done, store0>>

-----------------------------------------------------------------------------
(* Python values *)

EmptyDict == [k \in {} |-> <<>>]

Get(d, k, default) == IF k \in DOMAIN d THEN d[k] ELSE default

Range(s) == {s[i] : i \in 1..Len(s)}

KeyError == [exc |-> "KeyError"]

IsExc(v) == DOMAIN v = {"exc"}

\* a < b for two str values: lexicographic on code points
RECURSIVE StrLess(_, _)
StrLess(a, b) ==
    IF b = <<>> THEN FALSE
    ELSE IF a = <<>> THEN TRUE
    ELSE IF Head(a) # Head(b) THEN Head(a) < Head(b)
    ELSE StrLess(Tail(a), Tail(b))

\* sorted(set(xs)) for a list of str
RECURSIVE SortSet(_)
SortSet(S) ==
    IF S = {} THEN <<>>
    ELSE LET m == CHOOSE x \in S : \A y \in S \ {x} : StrLess(x, y)
         IN  <<m>> \o SortSet(S \ {m})

sorted_set(xs) == SortSet(Range(xs))

\* old in s, for two str values
IsSubstring(old, s) ==
    \E i \in 0..(Len(s) - Len(old)) : SubSeq(s, i + 1, i + Len(old)) = old

\* as s.replace(old, "") taken for the removal of every character of old
\* (what s.strip(old) does at the two ends)
str_remove_chars(s, old) == SelectSeq(s, LAMBDA c : c \notin Range(old))

\* s.replace(old, ""): leftmost non-overlapping occurrences; an empty old
\* is found between every two characters and replacing it changes nothing
RECURSIVE str_replace(_, _)
str_replace(s, old) ==
    IF old = <<>> \/ Len(s) < Len(old) THEN s
    ELSE IF SubSeq(s, 1, Len(old)) = old
         THEN str_replace(SubSeq(s, Len(old) + 1, Len(s)), old)
         ELSE <<Head(s)>> \o str_replace(Tail(s), old)

-----------------------------------------------------------------------------
(* Character classes of the re module (re.UNICODE) *)

Nian == 24180   \* U+5E74
Yue  == 26376   \* U+6708
Ri   == 26085   \* U+65E5
Fen  == 20998   \* U+5206

IsDigit(c) == c \in 48..57

\* \w: letters, digits and the underscore
IsWordChar(c) ==
    \/ IsDigit(c)
    \/ c \in 65..90
    \/ c = 95
    \/ c \in 97..122
    \/ c \in 19968..40959

\* punct_pattern.search(word): [^\w] matches somewhere
HasNonWord(word) == \E i \in 1..Len(word) : ~IsWordChar(word[i])

\* re.search(r"^\d+$", item): $ also matches before one final newline
AllDigits(item) ==
    LET body == IF Len(item) >= 1 /\ item[Len(item)] = 10
                THEN SubSeq(item, 1, Len(item) - 1) ELSE item
    IN  Len(body) >= 1 /\ \A i \in 1..Len(body) : IsDigit(body[i])

\* re.search(r"\d+U", item) for a unit character U
DigitsThen(item, unit) ==
    \E i \in 1..(Len(item) - 1) : IsDigit(item[i]) /\ item[i + 1] = unit

-----------------------------------------------------------------------------
(* The synchronous helpers of TextAnalyzer *)

_remove_punctuation(words) == SelectSeq(words, LAMBDA word : ~HasNonWord(word))

is_unwanted(item) ==
    \/ AllDigits(item)
    \/ DigitsThen(item, Nian)
    \/ DigitsThen(item, Yue)
    \/ DigitsThen(item, Ri)
    \/ DigitsThen(item, Fen)

_remove_unless_words(items) ==
    SelectSeq(items, LAMBDA item : Len(item) > 1 /\ ~is_unwanted(item))

\* the loop of _remove_meaningless: one str.replace per entry, in list order
RECURSIVE strip_each(_, _)
strip_each(t, meaningless) ==
    IF meaningless = <<>> THEN t
    ELSE strip_each(str_replace(t, Head(meaningless)), Tail(meaningless))

-----------------------------------------------------------------------------
(* The segmentation client *)

\* What requests.post(...) followed by r.json() does: it returns the decoded
\* body, [json |-> obj], or raises, [raises |-> <exception class>].
_call_texsmart_api(net) ==
    IF "json" \in DOMAIN net THEN net.json
    ELSE IF net.raises = "RequestException" THEN [error |-> "Request failed"]
    ELSE IF net.raises = "JSONDecodeError" THEN [error |-> "JSON decode failed"]
    ELSE [error |-> "An unexpected error occurred"]

\* word["str"], word["tag"] (and phrase[...]) raise KeyError on a missing key
HasStrTag(item) == {"str", "tag"} \subseteq DOMAIN item

parse_entity(entity) ==
    LET entity_meaning == Get(entity, "meaning", EmptyDict)
    IN  [str     |-> entity.str,
         tag     |-> entity.tag,
         i18n    |-> Get(entity.type, "i18n", <<>>),
         related |-> Get(entity_meaning, "related", <<>>)]

\* the three loops of _parse_texsmart_response over the lists it was given
parse_lists(word_list, phrase_list, entity_list) ==
    IF \/ \E i \in 1..Len(word_list) : ~HasStrTag(word_list[i])
       \/ \E i \in 1..Len(phrase_list) : ~HasStrTag(phrase_list[i])
       \/ \E i \in 1..Len(entity_list) :
             ~({"str", "tag", "type"} \subseteq DOMAIN entity_list[i])
    THEN KeyError
    ELSE [word_list   |-> [i \in 1..Len(word_list) |->
                              [str |-> word_list[i].str, tag |-> word_list[i].tag]],
          phrase_list |-> [i \in 1..Len(phrase_list) |->
                              [str |-> phrase_list[i].str, tag |-> phrase_list[i].tag]],
          entity_list |-> [i \in 1..Len(entity_list) |-> parse_entity(entity_list[i])]]

\* as _parse_texsmart_response, with response["word_list"] and so on in
\* place of response.get("word_list", [])
_parse_subscripted(resp) ==
    IF {"word_list", "phrase_list", "entity_list"} \subseteq DOMAIN resp
    THEN parse_lists(resp["word_list"], resp["phrase_list"], resp["entity_list"])
    ELSE KeyError

_parse_texsmart_response(resp) ==
    parse_lists(Get(resp, "word_list", <<>>),
                Get(resp, "phrase_list", <<>>),
                Get(resp, "entity_list", <<>>))

-----------------------------------------------------------------------------
(* term_freq after the text is normalized: lines 76 to 98 *)

Strs(items) == [i \in 1..Len(items) |-> items[i].str]

\* related_list.extend(entity["related"]) for each entity in turn
RECURSIVE extend_related(_)
extend_related(entities) ==
    IF entities = <<>> THEN <<>>
    ELSE Head(entities).related \o extend_related(Tail(entities))

\* collections.Counter(words)
Counter(words) ==
    [w \in Range(words) |-> Cardinality({i \in 1..Len(words) : words[i] = w})]

\* as line 93 without the set(): sorted(words)
keep_words(words) == words

\* line 93: words = sorted(set(words))
dedup_words(words) == sorted_set(words)

term_freq_of(resp) ==
    LET parsed_data == _parse_texsmart_response(resp)
    IN  IF IsExc(parsed_data) THEN parsed_data
        ELSE LET words        == Strs(parsed_data.word_list)
                 i18n_list    == [i \in 1..Len(parsed_data.entity_list) |->
                                     parsed_data.entity_list[i].i18n]
                 related_list == extend_related(parsed_data.entity_list)
                 words2       == _remove_unless_words(_remove_punctuation(words))
             IN  [counter |-> Counter(dedup_words(words2)),
                  i18n    |-> sorted_set(_remove_punctuation(i18n_list)),
                  related |-> sorted_set(_remove_punctuation(related_list))]

-----------------------------------------------------------------------------
(* sentiment after the dictionaries are loaded: lines 113 to 141 *)

in_list(word, xs) == \E i \in 1..Len(xs) : xs[i] = word

\* as line 127 with the membership test of line 124: word in negative_list
any_negative_exact(word, negative_list) == in_list(word, negative_list)

\* any(neg_word in word for neg_word in negative_list)
any_negative(word, negative_list) ==
    \E i \in 1..Len(negative_list) : IsSubstring(negative_list[i], word)

\* the for loop of lines 123 to 131, one word at a time
RECURSIVE classify(_, _, _, _)
classify(words, positive_list, negative_list, acc) ==
    IF words = <<>> THEN acc
    ELSE LET word == Head(words)
             next == IF in_list(word, positive_list)
                     THEN [acc EXCEPT !.positive_num = @ + 1,
                                      !.positive = Append(@, word)]
                     ELSE IF any_negative(word, negative_list)
                     THEN [acc EXCEPT !.negative_num = @ + 1,
                                      !.negative = Append(@, word)]
                     ELSE [acc EXCEPT !.unrecognized = Append(@, word)]
         IN  classify(Tail(words), positive_list, negative_list, next)

\* the report and the three buckets; unrecognized_all keeps the bucket as it
\* was before line 133 sorted and deduplicated it
sentiment_of(resp, positive_list, negative_list) ==
    LET parsed_data == _parse_texsmart_response(resp)
    IN  IF IsExc(parsed_data) THEN parsed_data
        ELSE LET words == _remove_punctuation(Strs(parsed_data.phrase_list))
                 acc   == classify(words, positive_list, negative_list,
                                   [positive_num |-> 0, negative_num |-> 0,
                                    positive |-> <<>>, negative |-> <<>>,
                                    unrecognized |-> <<>>])
             IN  [positive_num     |-> acc.positive_num,
                  negative_num     |-> acc.negative_num,
                  word_num         |-> Len(words),
                  positive         |-> acc.positive,
                  negative         |-> acc.negative,
                  unrecognized_all |-> acc.unrecognized,
                  unrecognized     |-> sorted_set(acc.unrecognized)]

-----------------------------------------------------------------------------
(* The unrecognized-word store *)

\* The file is absent, [exists |-> FALSE], or holds a YAML document,
\* [exists |-> TRUE, doc |-> d]: d is a mapping from keys to lists of scalars,
\* and a scalar is [quoted |-> BOOLEAN, value |-> str].  An empty file is the
\* document EmptyDict (safe_load gives None, which is as falsy as {}).
NoFile == [exists |-> FALSE]

\* PyYAML's implicit resolver on a scalar made of word characters: the empty
\* scalar is null and digits (with underscores) are an int; anything else is
\* a str.  yaml.dump and yaml.safe_load use the same resolver.
resolves_non_str(s) ==
    \/ s = <<>>
    \/ /\ IsDigit(s[1])
       /\ \A i \in 1..Len(s) : IsDigit(s[i]) \/ s[i] = 95

\* as yaml.dump, with every scalar written plain
yaml_dump_plain(combined_words) ==
    [unrecognized |-> [i \in 1..Len(combined_words) |->
        [quoted |-> FALSE, value |-> combined_words[i]]]]

\* yaml.dump({"unrecognized": combined_words}, f, allow_unicode=True): a str
\* that would be read back as something else is written in quotes
yaml_dump(combined_words) ==
    [unrecognized |-> [i \in 1..Len(combined_words) |->
        [quoted |-> resolves_non_str(combined_words[i]),
         value  |-> combined_words[i]]]]

\* yaml.safe_load(f): each item with whether it is loaded as a str
yaml_safe_load(doc) ==
    [k \in DOMAIN doc |-> [i \in 1..Len(doc[k]) |->
        [is_str |-> doc[k][i].quoted \/ ~resolves_non_str(doc[k][i].value),
         value  |-> doc[k][i].value]]]

existing_words_of(file) ==
    IF ~file.exists THEN <<>>
    ELSE LET data == yaml_safe_load(file.doc)
         IN  IF data # EmptyDict /\ "unrecognized" \in DOMAIN data
             THEN data["unrecognized"] ELSE <<>>

\* as _save_unrecognized_words without lines 161 to 165: the existing words
\* are not read
_save_new_words_only(words, file) ==
    [exists |-> TRUE, doc |-> yaml_dump(SortSet(Range(words)))]

\* _save_unrecognized_words(words): the file it leaves, or the TypeError of
\* sorted() on a list that holds a str and a non-str
_save_unrecognized_words(words, file) ==
    LET existing_words == existing_words_of(file)
    IN  IF \E i \in 1..Len(existing_words) : ~existing_words[i].is_str
        THEN [exc |-> "TypeError"]
        ELSE LET combined_words ==
                     SortSet({existing_words[i].value : i \in 1..Len(existing_words)}
                             \cup Range(words))
             IN  [exists |-> TRUE, doc |-> yaml_dump(combined_words)]

-----------------------------------------------------------------------------
(* Requests running in one event loop *)

NumRequests == 2

Procs == 1..NumRequests

Kinds == {"term_freq", "sentiment"}

None == [none |-> TRUE]

\* the _load_yaml_dict calls of a request, in order: term_freq makes one
\* (through _remove_meaningless), sentiment three
Stages(k) ==
    IF k = "term_freq" THEN <<"meaningless">>
    ELSE <<"meaningless", "positive", "negative">>

Names == {"meaningless", "positive", "negative"}

\* config.data after ConfigManager(...).load_config() for a file name
config_data(file) ==
    IF file = "meaningless" THEN [meaningless |-> << <<98>> >>]
    ELSE IF file = "positive" THEN [positive |-> << <<97>> >>]
    ELSE [negative |-> << <<110>> >>]

\* the text of a request: "ab", of which the meaningless "b" is stripped
Texts == { <<97, 98>> }

\* the phrases (and words) of a decoded response: "a" is positive, "c" and
\* "12" are in no dictionary
SpecPhraseLists == { << <<97>> >>, << <<99>> >>, << <<49, 50>> >> }

Tagged(strs) == [i \in 1..Len(strs) |-> [str |-> strs[i], tag |-> "NN"]]

\* what the HTTP round trip can do
NetOutcomes ==
    {[raises |-> e] : e \in {"RequestException", "JSONDecodeError", "Exception"}}
    \cup {[json |-> [word_list |-> Tagged(l), phrase_list |-> Tagged(l)]] :
             l \in SpecPhraseLists}

\* the store before the first request: no file, an empty file, or the file
\* an earlier process left with the word "d"
InitialStores ==
    {NoFile,
     [exists |-> TRUE, doc |-> EmptyDict],
     [exists |-> TRUE, doc |-> yaml_dump(<< <<100>> >>)]}

\* the dictionary _load_yaml_dict returned, at its call site: .get(file, [])
\* and, for "meaningless", the loop of _remove_meaningless
use_dict(file, data, dl, tx) ==
    LET entries == Get(data, file, <<>>)
    IN  [dicts |-> (file :> entries) @@ dl,
         text  |-> IF file = "meaningless" THEN strip_each(tx, entries) ELSE tx]

\* A request of kind k about to make its i-th _load_yaml_dict call runs on,
\* without yielding, through every call that finds its file in the cache: it
\* stops at the first call that must await load_config (at <= Len(Stages(k)))
\* or past the last one.
RECURSIVE run_to_await(_, _, _, _, _)
run_to_await(k, i, cache, dl, tx) ==
    IF i > Len(Stages(k)) THEN [at |-> i, dicts |-> dl, text |-> tx]
    ELSE LET file == Stages(k)[i]
         IN  IF file \in DOMAIN cache
             THEN LET u == use_dict(file, cache[file], dl, tx)
                  IN  run_to_await(k, i + 1, cache, u.dicts, u.text)
             ELSE [at |-> i, dicts |-> dl, text |-> tx]

\* term_freq lines 80 to 98: no await, the request runs to its return
finish_term_freq(p, resp) ==
    LET res == term_freq_of(resp)
    IN  /\ result' = [result EXCEPT ![p] = res]
        /\ pc' = [pc EXCEPT ![p] = IF IsExc(res) THEN "raised" ELSE "done"]
        /\ UNCHANGED store_file

\* sentiment lines 113 to 141: no await, the request runs to its return
finish_sentiment(p, resp, dl) ==
    LET res   == sentiment_of(resp, dl["positive"], dl["negative"])
        saved == IF IsExc(res) THEN res
                 ELSE _save_unrecognized_words(res.unrecognized, store_file)
    IN  IF IsExc(saved)
        THEN /\ result' = [result EXCEPT ![p] = saved]
             /\ pc' = [pc EXCEPT ![p] = "raised"]
             /\ UNCHANGED store_file
        ELSE /\ result' = [result EXCEPT ![p] = res]
             /\ pc' = [pc EXCEPT ![p] = "done"]
             /\ store_file' = saved

\* request p goes on from its i-th _load_yaml_dict call with the cache as it
\* is now, up to its next await or to its return
proceed(p, k, i, cache, dl, tx) ==
    LET r == run_to_await(k, i, cache, dl, tx)
    IN  /\ dicts' = [dicts EXCEPT ![p] = r.dicts]
        /\ text' = [text EXCEPT ![p] = r.text]
        /\ stage' = [stage EXCEPT ![p] = r.at]
        /\ IF r.at <= Len(Stages(k))
           THEN /\ pc' = [pc EXCEPT ![p] = "await"]
                /\ reads' = [reads EXCEPT ![Stages(k)[r.at]] = @ + 1]
                /\ UNCHANGED <<store_file, result, response>>
           ELSE /\ UNCHANGED reads
                /\ \E net \in NetOutcomes :
                      LET resp == _call_texsmart_api(net)
                      IN  /\ response' = [response EXCEPT ![p] = resp]
                          /\ IF k = "term_freq"
                             THEN finish_term_freq(p, resp)
                             ELSE finish_sentiment(p, resp, r.dicts)

\* the host calls term_freq(t) or sentiment(t); requests are numbered in the
\* order of their calls
Call(p) ==
    /\ pc[p] = "idle"
    /\ \A q \in Procs : q < p => pc[q] # "idle"
    /\ \E k \in Kinds, t \in Texts :
          /\ kind' = [kind EXCEPT ![p] = k]
          /\ seen_done' = [seen_done EXCEPT ![p] =
                              {q \in Procs : pc[q] \in {"done", "raised"}}]
          /\ proceed(p, k, 1, LOADED_DICTIONARIES, EmptyDict, t)
    /\ UNCHANGED <<LOADED_DICTIONARIES, failed, store0, input, output, fn>>

\* await config.load_config(completion=False) returns: lines 33 and 34, and
\* the caller's code up to the next await
LoadDone(p) ==
    /\ pc[p] = "await"
    /\ LET file  == Stages(kind[p])[stage[p]]
           data  == config_data(file)
           cache == (file :> data) @@ LOADED_DICTIONARIES
           u     == use_dict(file, data, dicts[p], text[p])
       IN  /\ LOADED_DICTIONARIES' = cache
           /\ proceed(p, kind[p], stage[p] + 1, cache, u.dicts, u.text)
    /\ UNCHANGED <<kind, failed, seen_done, store0, input, output, fn>>

\* as LoadFail, with an empty dictionary cached under the name before the
\* exception goes up
LoadFailCachingFallback(p) ==
    /\ pc[p] = "await"
    /\ pc' = [pc EXCEPT ![p] = "raised"]
    /\ result' = [result EXCEPT ![p] = [exc |-> "ConfigError"]]
    /\ failed' = [failed EXCEPT ![Stages(kind[p])[stage[p]]] = @ + 1]
    /\ LOADED_DICTIONARIES' =
          (Stages(kind[p])[stage[p]] :> EmptyDict) @@ LOADED_DICTIONARIES
    /\ UNCHANGED <<store_file, kind, stage, text, dicts,
                   response, reads, seen_done, store0, input, output, fn>>

\* await config.load_config(completion=False) raises: nothing catches it
LoadFail(p) ==
    /\ pc[p] = "await"
    /\ pc' = [pc EXCEPT ![p] = "raised"]
    /\ result' = [result EXCEPT ![p] = [exc |-> "ConfigError"]]
    /\ failed' = [failed EXCEPT ![Stages(kind[p])[stage[p]]] = @ + 1]
    /\ UNCHANGED <<LOADED_DICTIONARIES, store_file, kind, stage, text, dicts,
                   response, reads, seen_done, store0, input, output, fn>>

\* no request has been made
Quiet ==
    /\ LOADED_DICTIONARIES = EmptyDict
    /\ pc = [p \in Procs |-> "idle"]
    /\ kind = [p \in Procs |-> "term_freq"]
    /\ stage = [p \in Procs |-> 1]
    /\ text = [p \in Procs |-> <<>>]
    /\ dicts = [p \in Procs |-> EmptyDict]
    /\ response = [p \in Procs |-> None]
    /\ result = [p \in Procs |-> None]
    /\ reads = [f \in Names |-> 0]
    /\ failed = [f \in Names |-> 0]
    /\ seen_done = [p \in Procs |-> {}]

Init ==
    /\ Quiet
    /\ store_file \in InitialStores
    /\ store0 = store_file
    /\ input = None
    /\ output = <<>>
    /\ fn = "requests"

Next == \E p \in Procs : Call(p) \/ LoadDone(p) \/ LoadFail(p)

Spec == Init /\ [][Next]_vars

-----------------------------------------------------------------------------
(* One function at a time, on inputs drawn from bounded sets *)

SeqsUpTo(S, n) == UNION {[1..m -> S] : m \in 0..n}

\* no request is made: the process state stays as constructed
NoRequests ==
    /\ Quiet
    /\ store_file = NoFile
    /\ store0 = NoFile

(* _remove_meaningless applied to a text and then to its own result *)

MaxTextLen == 4

MaxMeaningless == 2

NormAlphabet == {97, 98}

MaxEntryLen == 2

\* the entries of a "meaningless" list: "", "a", "b", "aa", "ab", "ba", "bb"
MeaninglessEntries == SeqsUpTo(NormAlphabet, MaxEntryLen)

InitNormalize ==
    /\ NoRequests
    /\ fn = "normalize"
    /\ input \in [text : SeqsUpTo(NormAlphabet, MaxTextLen),
                  meaningless : SeqsUpTo(MeaninglessEntries, MaxMeaningless)]
    /\ output = <<>>

Normalize ==
    /\ fn = "normalize"
    /\ Len(output) < 2
    /\ LET t == IF output = <<>> THEN input.text ELSE output[Len(output)]
       IN  output' = Append(output, strip_each(t, input.meaningless))
    /\ UNCHANGED <<procvars, input, fn>>

SpecNormalize == InitNormalize /\ [][Normalize]_vars

(* term_freq applied to a decoded response, MaxRuns times over *)

MaxRuns == 2

MaxWords == 2

MaxEntities == 1

\* "a", "1", the unit U+6708 and "!": every str of at most two of them, and
\* digits before each of the other units, inside a longer word too
TFTokens ==
    SeqsUpTo({97, 49, Yue, 33}, 2)
    \cup {<<49, Nian>>, <<49, Ri>>, <<49, Fen>>, <<97, 49, Yue, 97>>, <<97, 97, 97>>}

LabelTokens == {<<>>, <<97>>, <<97, 98>>, <<49>>, <<49, Yue>>, <<97, 33>>}

Entities ==
    {[str |-> <<97>>, tag |-> "NN", type |-> [i18n |-> l], meaning |-> [related |-> r]] :
        l \in LabelTokens, r \in SeqsUpTo(LabelTokens \ {<<>>}, 1)}

\* entity records with keys missing, and responses with lists missing
SparseEntities ==
    {e @@ [str |-> <<97>>, tag |-> "NN"] :
        e \in {t @@ m : t \in {EmptyDict, [type |-> EmptyDict],
                               [type |-> [i18n |-> <<97, 98>>]]},
                        m \in {EmptyDict, [meaning |-> EmptyDict],
                               [meaning |-> [related |-> << <<97, 98>> >>]]}}}

SparseResponses ==
    {w @@ ph @@ e :
        w  \in {EmptyDict, [word_list |-> Tagged(<< <<97, 98>> >>)]},
        ph \in {EmptyDict, [phrase_list |-> Tagged(<< <<97, 98>> >>)]},
        e  \in {EmptyDict} \cup {[entity_list |-> <<x>>] : x \in SparseEntities}}

TFResponses ==
    {[word_list |-> Tagged(l), phrase_list |-> <<>>, entity_list |-> <<>>] :
        l \in SeqsUpTo(TFTokens, MaxWords)}
    \cup {[word_list |-> Tagged(<< <<97, 98>>, <<97>> >>), phrase_list |-> <<>>,
           entity_list |-> es] : es \in SeqsUpTo(Entities, MaxEntities)}
    \cup SparseResponses

InitTermFreq ==
    /\ NoRequests
    /\ fn = "term_freq"
    /\ input \in TFResponses
    /\ output = <<>>

TermFreq ==
    /\ fn = "term_freq"
    /\ Len(output) < MaxRuns
    /\ output' = Append(output, term_freq_of(input))
    /\ UNCHANGED <<procvars, input, fn>>

SpecTermFreq == InitTermFreq /\ [][TermFreq]_vars

(* the classification of sentiment applied to dictionaries and phrases *)

MaxPhrases == 3

MaxDictLen == 1

\* dictionary entries "", "a", "b", "ba"; phrases "a", "ba", "aa", "a!"
DictWords == {<<>>, <<97>>, <<98>>, <<98, 97>>}

PhraseTokens == {<<97>>, <<98, 97>>, <<97, 97>>, <<97, 33>>}

InitSentiment ==
    /\ NoRequests
    /\ fn = "sentiment"
    /\ input \in [positive_list : SeqsUpTo(DictWords, MaxDictLen),
                  negative_list : SeqsUpTo(DictWords, MaxDictLen),
                  phrases : SeqsUpTo(PhraseTokens, MaxPhrases)]
    /\ output = <<>>

Sentiment ==
    /\ fn = "sentiment"
    /\ output = <<>>
    /\ output' = <<sentiment_of([phrase_list |-> Tagged(input.phrases)],
                                input.positive_list, input.negative_list)>>
    /\ UNCHANGED <<procvars, input, fn>>

SpecSentiment == InitSentiment /\ [][Sentiment]_vars

-----------------------------------------------------------------------------
(* Properties *)

\* the words the store holds under "unrecognized"
StoreWords(file) ==
    LET ws == existing_words_of(file) IN {ws[i].value : i \in 1..Len(ws)}

SentimentDone == {p \in Procs : kind[p] = "sentiment" /\ pc[p] = "done"}

\* C1: for every dictionary name, at most one load of its configuration
\* source is ever started, whatever requests are in flight (a load that
\* raised is not counted, so that only a second load of a source that was or
\* is being read successfully breaks the property).
C1_SourceReadAtMostOnce == \A f \in Names : reads[f] - failed[f] <= 1

\* C2: no step of any request, in any interleaving, removes a word from the
\* unrecognized-word store.
C2_StoreNeverShrinks ==
    [][StoreWords(store_file) \subseteq StoreWords(store_file')]_vars

\* two sentiment requests that overlapped in time have both written, and the
\* store holds the words it started with and the words of both
C2_Witness ==
    \E p, q \in SentimentDone :
        /\ p < q /\ p \notin seen_done[q]
        /\ result[p].unrecognized # <<>>
        /\ result[q].unrecognized # <<>>
        /\ result[p].unrecognized # result[q].unrecognized
        /\ StoreWords(store0) # {}
        /\ StoreWords(store0) \cup Range(result[p].unrecognized)
              \cup Range(result[q].unrecognized) \subseteq StoreWords(store_file)

\* C3: once sentiment requests have run to completion, the store file is a
\* mapping with the one key "unrecognized" whose list is strictly increasing
\* (sorted, without duplicates), holds str items only, and holds exactly the
\* words of the initial store and the unrecognized words of every completed
\* run.
C3_StoreIsSortedUnion ==
    SentimentDone # {} =>
        /\ store_file.exists
        /\ DOMAIN store_file.doc = {"unrecognized"}
        /\ LET ws == existing_words_of(store_file)
           IN  /\ \A i \in 1..Len(ws) : ws[i].is_str
               /\ \A i \in 1..(Len(ws) - 1) : StrLess(ws[i].value, ws[i + 1].value)
               /\ {ws[i].value : i \in 1..Len(ws)} =
                     StoreWords(store0)
                     \cup UNION {Range(result[p].unrecognized) : p \in SentimentDone}

\* two runs in sequence, with disjoint non-empty unrecognized sets, on a
\* store that was not empty
C3_Witness ==
    \E p, q \in SentimentDone :
        /\ p \in seen_done[q]
        /\ result[p].unrecognized # <<>>
        /\ result[q].unrecognized # <<>>
        /\ Range(result[p].unrecognized) \cap Range(result[q].unrecognized) = {}
        /\ StoreWords(store0) # {}
        /\ Len(existing_words_of(store_file)) = 3

\* C4: every occurrence of a punctuation-free phrase falls in exactly one
\* bucket: positive iff it is an entry of the positive list; otherwise
\* negative iff some negative entry is a substring of it; otherwise
\* unrecognized.  The counters count occurrences, word_num counts the
\* punctuation-free phrases, and the three buckets add up to word_num.
C4_Buckets ==
    output # <<>> =>
        LET r     == output[1]
            P     == input.positive_list
            N     == input.negative_list
            T     == SelectSeq(input.phrases,
                               LAMBDA w : \A i \in 1..Len(w) : IsWordChar(w[i]))
            Pos(w) == \E i \in 1..Len(P) : P[i] = w
            Neg(w) == ~Pos(w) /\ \E i \in 1..Len(N) : IsSubstring(N[i], w)
            Unr(w) == ~Pos(w) /\ ~Neg(w)
        IN  /\ r.word_num = Len(T)
            /\ r.positive = SelectSeq(T, Pos)
            /\ r.negative = SelectSeq(T, Neg)
            /\ r.unrecognized_all = SelectSeq(T, Unr)
            /\ r.positive_num = Len(r.positive)
            /\ r.negative_num = Len(r.negative)
            /\ r.positive_num + r.negative_num + Len(r.unrecognized_all) = r.word_num
            /\ Range(r.unrecognized) = {T[i] : i \in {j \in 1..Len(T) : Unr(T[j])}}

\* positive ["a"], negative ["b"], phrases ["a", "ba", "aa"]: one positive,
\* one negative (by substring), "aa" unrecognized, three words
C4_Witness ==
    /\ output # <<>>
    /\ input = [positive_list |-> << <<97>> >>, negative_list |-> << <<98>> >>,
                phrases |-> << <<97>>, <<98, 97>>, <<97, 97>> >>]
    /\ output[1].positive_num = 1
    /\ output[1].negative_num = 1
    /\ output[1].unrecognized = << <<97, 97>> >>
    /\ output[1].word_num = 3

\* C5 as stated: normalizing the result of a normalization changes nothing.
C5_Idempotent == Len(output) = 2 => output[2] = output[1]

NoEntryOccurs(t, meaningless) ==
    \A i \in 1..Len(meaningless) :
        meaningless[i] = <<>> \/ ~IsSubstring(meaningless[i], t)

\* C5 amended: a text in which no non-empty meaningless entry occurs is left
\* as it is, by one normalization and by the next.
C5_IdempotentOnCleanText ==
    NoEntryOccurs(input.text, input.meaningless) =>
        \A i \in 1..Len(output) : output[i] = input.text

\* "ab" normalized twice under the entries "ba" and "", which do not occur
C5_Witness ==
    /\ Len(output) = 2
    /\ input.text = <<97, 98>>
    /\ input.meaningless = << <<98, 97>>, <<>> >>

\* a token the filters are meant to drop
UnwantedToken(t) ==
    \/ \E i \in 1..Len(t) : ~IsWordChar(t[i])
    \/ Len(t) = 1
    \/ Len(t) >= 1 /\ \A i \in 1..Len(t) : IsDigit(t[i])
    \/ /\ Len(t) >= 2
       /\ t[Len(t)] \in {Nian, Yue, Ri, Fen}
       /\ \A i \in 1..(Len(t) - 1) : IsDigit(t[i])

\* C6: none of the three outputs of term_freq holds an unwanted token.
C6_NoUnwantedTokenInOutputs ==
    \A i \in 1..Len(output) :
        ~IsExc(output[i]) =>
            \A t \in DOMAIN output[i].counter \cup Range(output[i].i18n)
                        \cup Range(output[i].related) : ~UnwantedToken(t)

\* C7: a request whose segmentation call failed returns, with nothing
\* raised: term_freq an empty mapping and two empty lists, sentiment three
\* zero counts; the step keeps every word of the store.
C7_SegmentationFailure ==
    [][\A p \in Procs :
          (/\ pc[p] \in {"idle", "await"}
           /\ pc'[p] \in {"done", "raised"}
           /\ "error" \in DOMAIN response'[p])
          => /\ pc'[p] = "done"
             /\ StoreWords(store_file) \subseteq StoreWords(store_file')
             /\ IF kind'[p] = "term_freq"
                THEN /\ DOMAIN result'[p].counter = {}
                     /\ result'[p].i18n = <<>>
                     /\ result'[p].related = <<>>
                ELSE /\ result'[p].positive_num = 0
                     /\ result'[p].negative_num = 0
                     /\ result'[p].word_num = 0]_vars

\* a term_freq and a sentiment request both met a failed segmentation call
\* and the store still holds the word it started with
C7_Witness ==
    \E p, q \in Procs :
        /\ kind[p] = "term_freq" /\ kind[q] = "sentiment"
        /\ pc[p] = "done" /\ pc[q] = "done"
        /\ "error" \in DOMAIN response[p]
        /\ "error" \in DOMAIN response[q]
        /\ StoreWords(store0) # {}
        /\ StoreWords(store_file) = StoreWords(store0)

\* C8: term_freq on a response whose items all have "str" and "tag" raises
\* nothing: a missing list is an empty list, an entity without "type" (or
\* without "i18n" in it) has the empty label and an entity without "meaning"
\* (or without "related" in it) has no related concept.
C8_MissingKeysDefault ==
    (output # <<>> /\ input \in SparseResponses) =>
        LET o  == output[1]
            es == Get(input, "entity_list", <<>>)
        IN  /\ ~IsExc(o)
            /\ "word_list" \notin DOMAIN input => DOMAIN o.counter = {}
            /\ \A i \in 1..Len(es) :
                  /\ Get(Get(es[i], "type", EmptyDict), "i18n", <<>>) = <<>>
                        => o.i18n = << <<>> >>
                  /\ Get(Get(es[i], "meaning", EmptyDict), "related", <<>>) = <<>>
                        => o.related = <<>>

ConfigError == [exc |-> "ConfigError"]

\* C9: the step in which load_config raises ends the request with that
\* exception and changes neither the cache nor the store; a request ended
\* this way never reached the segmentation call, hence never the write of
\* the store after it; and a request called while "meaningless" is not in
\* the cache starts a load of it, whatever loads failed before.
C9_LoadFailure ==
    [][\A p \in Procs :
          /\ (pc[p] = "await" /\ pc'[p] = "raised")
                => /\ result'[p] = ConfigError
                   /\ response'[p] = None
                   /\ LOADED_DICTIONARIES' = LOADED_DICTIONARIES
                   /\ store_file' = store_file
          /\ (pc[p] = "idle" /\ pc'[p] # "idle"
                /\ "meaningless" \notin DOMAIN LOADED_DICTIONARIES)
                => /\ pc'[p] = "await"
                   /\ Stages(kind'[p])[stage'[p]] = "meaningless"
                   /\ reads'["meaningless"] = reads["meaningless"] + 1]_vars

\* a sentiment request ended by a failed load of a file that is still not
\* cached, and a request called afterwards is loading that file again
C9_Witness ==
    \E p, q \in Procs :
        /\ kind[p] = "sentiment"
        /\ pc[p] = "raised" /\ result[p] = ConfigError
        /\ p \in seen_done[q]
        /\ pc[q] = "await"
        /\ Stages(kind[q])[stage[q]] = Stages(kind[p])[stage[p]]
        /\ Stages(kind[p])[stage[p]] \notin DOMAIN LOADED_DICTIONARIES
        /\ store_file = store0

\* C10: every run of term_freq on the same response returns the same value;
\* the keys of the frequency mapping are exactly the distinct words that
\* pass the filters, and every count is 1.
C10_CountsAreOne ==
    \A i \in 1..Len(output) :
        ~IsExc(output[i]) =>
            LET ws == Strs(Get(input, "word_list", <<>>))
            IN  /\ output[i] = output[1]
                /\ DOMAIN output[i].counter =
                      {w \in Range(ws) : /\ \A j \in 1..Len(w) : IsWordChar(w[j])
                                         /\ Len(w) > 1
                                         /\ ~is_unwanted(w)}
                /\ \A w \in DOMAIN output[i].counter : output[i].counter[w] = 1

\* the word "aaa" twice in the word list, term_freq run twice
C10_Witness ==
    /\ Len(output) = 2
    /\ Strs(Get(input, "word_list", <<>>)) = << <<97, 97, 97>>, <<97, 97, 97>> >>
    /\ output[2].counter[<<97, 97, 97>>] = 1

====
